---- MODULE Spec2Model ----
(***************************************************************************)
(* Natal chart computation of app/routers/natal_chart.py.                  *)
(*                                                                         *)
(* Angles are fixed-point: an angle is an integer count of thousandths of  *)
(* a degree (30 degrees = 30000), so that the two-decimal rounding of the  *)
(* reported degree is a real operation of the model.  Instants are whole   *)
(* minutes counted from 2000-01-01 00:00 UTC.  Strings that the code       *)
(* parses are sequences of one-character strings.                          *)
(***************************************************************************)
EXTENDS Integers, Sequences, FiniteSets, TLC

VARIABLES
    now,      \* the system clock read by ts.now()
    eph,      \* the ephemeris loaded at import time (natal_chart.py:15)
    birth,    \* birth_date and birth_time sent by the client of this run
    last,     \* the latest served request with its outcome, or NoCall
    prev,     \* the one served before it, or NoCall
    fnArg,    \* argument of the pure function under test (a longitude)
    fnK,      \* number of whole turns added to fnArg
    fnRet,    \* what the applied function returned, or NoRet
    calls,    \* the requests in flight together, each idle, pending or done
    sub,      \* the users table row of one user, the clock and the last
              \* subscription operation (routers/subscription.py)
    tarot,    \* the tarot_history table of one user, the clock and the
              \* GET /tarot/daily requests in flight (routers/tarot.py)
    journal   \* the journal_entries table and the last journal operation
              \* (routers/journal.py)

chartVars == <<now, eph, birth, last, prev, fnArg, fnK, fnRet, calls>>

vars == <<now, eph, birth, last, prev, fnArg, fnK, fnRet, calls, sub, tarot, journal>>

----------------------------------------------------------------------------
(* Python arithmetic on the fixed-point angles *)

Deg(n) == n * 1000

\* int(a / b) for b > 0: truncation toward zero
IntTrunc(a, b) == IF a >= 0 THEN a \div b ELSE -((-a) \div b)

\* a % b for b > 0: the result has the sign of b
PyMod(a, b) == a % b

\* round(x, 2): to the nearest hundredth, a tie to the even hundredth
Round2(x) ==
    LET q == x \div 10
        r == x % 10
    IN  IF r < 5 THEN q * 10
        ELSE IF r > 5 THEN (q + 1) * 10
        ELSE IF q % 2 = 0 THEN q * 10 ELSE (q + 1) * 10

\* str.title() of the lower-case identifiers used here
Title(s) == <<"title", s>>

----------------------------------------------------------------------------
(* Tables *)

SIGNS == << "aries", "taurus", "gemini", "cancer",
            "leo", "virgo", "libra", "scorpio",
            "sagittarius", "capricorn", "aquarius", "pisces" >>

SignSet == { SIGNS[i] : i \in 1..12 }

PLANETS == [ sun     |-> "sun",
             moon    |-> "moon",
             mercury |-> "mercury barycenter",
             venus   |-> "venus barycenter",
             mars    |-> "mars barycenter",
             jupiter |-> "jupiter barycenter",
             saturn  |-> "saturn barycenter",
             uranus  |-> "uranus barycenter",
             neptune |-> "neptune barycenter" ]

PlanetOrder == << "mercury", "venus", "mars", "jupiter", "saturn", "uranus", "neptune" >>

\* bodies that have a sub-table in PLANET_SIGN_READINGS; each sub-table has
\* a non-empty text for all twelve signs
ReadingBodies == { "sun", "moon", "ascendant", "mercury", "venus", "mars",
                   "jupiter", "saturn", "uranus", "neptune" }

PLANET_SIGN_READINGS(planet, sign) == <<"table", planet, sign>>

EmptyText == << >>

\* a lookup without the generic sentence: no text for a missing entry
get_reading_strict(planet, sign) ==
    IF planet \in ReadingBodies /\ sign \in SignSet
    THEN PLANET_SIGN_READINGS(planet, sign)
    ELSE EmptyText

get_reading(planet, sign) ==
    IF planet \in ReadingBodies /\ sign \in SignSet
    THEN PLANET_SIGN_READINGS(planet, sign)
    ELSE <<"generic", Title(planet), Title(sign)>>

----------------------------------------------------------------------------
(* Sign / house mapper *)

\* a sign index rounded to the nearest sign instead of truncated
SignIndexRounded(longitude) == ((longitude + Deg(15)) \div Deg(30)) % 12

\* sign_index = int(longitude / 30) % 12
SignIndex(longitude) == IntTrunc(longitude, Deg(30)) % 12

\* a mapping that leaves an exact boundary to the sign that ends there
ecliptic_longitude_to_sign_closed(longitude) ==
    LET idx == IF longitude % Deg(30) = 0 /\ longitude > 0
               THEN longitude \div Deg(30) - 1
               ELSE IntTrunc(longitude, Deg(30))
    IN  [ sign   |-> SIGNS[(idx % 12) + 1],
          degree |-> longitude - Deg(30) * idx ]

ecliptic_longitude_to_sign(longitude) ==
    [ sign   |-> SIGNS[SignIndex(longitude) + 1],
      degree |-> PyMod(longitude, Deg(30)) ]

\* houses counted from the sign after the Ascendant's
calculate_houses_from_next(ascendant_longitude) ==
    LET asc_sign_index == IntTrunc(ascendant_longitude, Deg(30)) % 12
    IN  [ i \in 1..12 |->
            [ house  |-> i,
              sign   |-> SIGNS[((asc_sign_index + i) % 12) + 1],
              degree |-> 0 ] ]

calculate_houses(ascendant_longitude) ==
    LET asc_sign_index == IntTrunc(ascendant_longitude, Deg(30)) % 12
    IN  [ i \in 1..12 |->
            [ house  |-> i,
              sign   |-> SIGNS[((asc_sign_index + (i - 1)) % 12) + 1],
              degree |-> 0 ] ]

\* a response whose retrograde flag is set in the second half of the zodiac
PositionWithMotion(planet_name, longitude) ==
    LET sd == [ sign   |-> SIGNS[(IntTrunc(longitude, Deg(30)) % 12) + 1],
                degree |-> longitude % Deg(30) ]
    IN  [ planet     |-> planet_name,
          sign       |-> sd.sign,
          degree     |-> Round2(sd.degree),
          retrograde |-> longitude >= Deg(180),
          reading    |-> get_reading(planet_name, sd.sign) ]

\* the PlanetPositionResponse built from a longitude in both
\* calculate_planet_position and calculate_rising_sign
Position(planet_name, longitude) ==
    LET sd == ecliptic_longitude_to_sign(longitude)
    IN  [ planet     |-> planet_name,
          sign       |-> sd.sign,
          degree     |-> Round2(sd.degree),
          retrograde |-> FALSE,
          reading    |-> get_reading(planet_name, sd.sign) ]

----------------------------------------------------------------------------
(* Strings: str.split and int() *)

Digits == << "0", "1", "2", "3", "4", "5", "6", "7", "8", "9" >>

IsDigit(c) == \E d \in 1..10 : Digits[d] = c

DigitValue(c) == (CHOOSE d \in 1..10 : Digits[d] = c) - 1

\* s.split(sep) for a one-character separator: always at least one field
RECURSIVE SplitFrom(_, _, _, _, _)
SplitFrom(s, sep, i, cur, acc) ==
    IF i > Len(s) THEN Append(acc, cur)
    ELSE IF s[i] = sep THEN SplitFrom(s, sep, i + 1, << >>, Append(acc, cur))
    ELSE SplitFrom(s, sep, i + 1, Append(cur, s[i]), acc)

Split(s, sep) == SplitFrom(s, sep, 1, << >>, << >>)

\* s.strip() of blanks
RECURSIVE Strip(_)
Strip(s) ==
    IF s = << >> THEN s
    ELSE IF Head(s) = " " THEN Strip(Tail(s))
    ELSE IF s[Len(s)] = " " THEN Strip(SubSeq(s, 1, Len(s) - 1))
    ELSE s

RECURSIVE DigitsValue(_, _)
DigitsValue(s, acc) ==
    IF s = << >> THEN acc ELSE DigitsValue(Tail(s), acc * 10 + DigitValue(Head(s)))

ValueError == [ ok |-> FALSE, val |-> 0 ]

\* int(s): blanks stripped, an optional sign, then one or more decimal digits
\* (the sampled strings hold no underscore); anything else is a ValueError
ParseInt(s) ==
    LET b      == Strip(s)
        signed == b # << >> /\ Head(b) \in { "+", "-" }
        body   == IF signed THEN Tail(b) ELSE b
    IN  IF body = << >> \/ \E i \in 1..Len(body) : ~IsDigit(body[i])
        THEN ValueError
        ELSE [ ok  |-> TRUE,
               val |-> IF signed /\ Head(b) = "-"
                       THEN -DigitsValue(body, 0) ELSE DigitsValue(body, 0) ]

----------------------------------------------------------------------------
(* Time resolver *)

\* the day number of a proleptic Gregorian calendar date, as the timescale
\* computes it: months outside 1..12 carry into the year, days are added
\* without a range check
JulianDay(year, month, day) ==
    LET y      == (month - 1) \div 12
        m      == ((month - 1) % 12) + 1
        yr     == year + y
        janfeb == IF m <= 2 THEN 1 ELSE 0
        g      == yr + 4716 - janfeb
        f      == (m + 9) % 12
        e      == (1461 * g) \div 4 + day - 1402
        J      == e + (153 * f + 2) \div 5
    IN  J + 38 - ((((g + 184) \div 100) * 3) \div 4)

\* ts.utc(year, month, day, hour, minute): minutes from 2000-01-01 00:00 UTC
Utc(year, month, day, hour, minute) ==
    (JulianDay(year, month, day) - 2451545) * 1440 + hour * 60 + minute

\* a reading of the fields that requires the minute part: 'HH' alone has
\* no minute (IndexError)
ParsedFieldsMinuteRequired(request) ==
    LET date_parts == Split(request.birth_date, "-")
        time_parts == Split(request.birth_time, ":")
    IN  [ year   |-> ParseInt(date_parts[1]),
          month  |-> IF Len(date_parts) >= 2 THEN ParseInt(date_parts[2]) ELSE ValueError,
          day    |-> IF Len(date_parts) >= 3 THEN ParseInt(date_parts[3]) ELSE ValueError,
          hour   |-> ParseInt(time_parts[1]),
          minute |-> IF Len(time_parts) > 1 THEN ParseInt(time_parts[2]) ELSE ValueError ]

\* the fields read in the try block of calculate_natal_chart; a field that
\* is missing (IndexError) or is no integer (ValueError) has ok = FALSE
ParsedFields(request) ==
    LET date_parts == Split(request.birth_date, "-")
        time_parts == Split(request.birth_time, ":")
    IN  [ year   |-> ParseInt(date_parts[1]),
          month  |-> IF Len(date_parts) >= 2 THEN ParseInt(date_parts[2]) ELSE ValueError,
          day    |-> IF Len(date_parts) >= 3 THEN ParseInt(date_parts[3]) ELSE ValueError,
          hour   |-> ParseInt(time_parts[1]),
          minute |-> IF Len(time_parts) > 1 THEN ParseInt(time_parts[2])
                     ELSE [ ok |-> TRUE, val |-> 0 ] ]

\* a time resolver that reads the clock whatever the request holds
ResolveTimeClock(request, clock) == [ parsed |-> FALSE, t |-> clock ]

\* a time resolver that falls back to the clock for a bad date only, and to
\* midnight for a bad time
ResolveTimeMidnight(request, clock) ==
    LET f == ParsedFields(request)
    IN  IF f.year.ok /\ f.month.ok /\ f.day.ok
        THEN [ parsed |-> f.hour.ok /\ f.minute.ok,
               t |-> IF f.hour.ok /\ f.minute.ok
                     THEN Utc(f.year.val, f.month.val, f.day.val, f.hour.val, f.minute.val)
                     ELSE Utc(f.year.val, f.month.val, f.day.val, 0, 0) ]
        ELSE [ parsed |-> FALSE, t |-> clock ]

\* a time resolver that takes the civil time as local mean time at the
\* birth longitude (four minutes of time per degree)
ResolveTimeLocal(request, clock) ==
    LET f == ParsedFields(request)
    IN  IF f.year.ok /\ f.month.ok /\ f.day.ok /\ f.hour.ok /\ f.minute.ok
        THEN [ parsed |-> TRUE,
               t |-> Utc(f.year.val, f.month.val, f.day.val, f.hour.val, f.minute.val)
                        - (request.longitude * 4) \div 1000 ]
        ELSE [ parsed |-> FALSE, t |-> clock ]

\* the try block of calculate_natal_chart: the instant t, and whether it
\* came from the request (the except branch reads the clock: ts.now())
ResolveTime(request, clock) ==
    LET f == ParsedFields(request)
    IN  IF f.year.ok /\ f.month.ok /\ f.day.ok /\ f.hour.ok /\ f.minute.ok
        THEN [ parsed |-> TRUE,
               t |-> Utc(f.year.val, f.month.val, f.day.val, f.hour.val, f.minute.val) ]
        ELSE [ parsed |-> FALSE, t |-> clock ]

----------------------------------------------------------------------------
(* The ephemeris and the Earth rotation angle, as the library serves them *)

BodyKeys == { PLANETS[p] : p \in DOMAIN PLANETS }

\* mean longitude at 2000-01-01 12:00 and mean daily motion of each body
MeanElements ==
    [ k \in BodyKeys |->
        CASE k = "sun"                -> << 280460,   986 >>
          [] k = "moon"               -> << 218316, 13176 >>
          [] k = "mercury barycenter" -> << 252251,  4092 >>
          [] k = "venus barycenter"   -> << 181980,  1602 >>
          [] k = "mars barycenter"    -> << 355433,   524 >>
          [] k = "jupiter barycenter" -> <<  34351,    83 >>
          [] k = "saturn barycenter"  -> <<  50077,    33 >>
          [] k = "uranus barycenter"  -> << 314055,    12 >>
          [] OTHER                    -> << 304349,     6 >> ]

\* the span of instants de421.bsp covers: 1899-07-29 .. 2053-10-09
EphFirst == Utc(1899, 7, 29, 0, 0)
EphLast  == Utc(2053, 10, 9, 0, 0)

LookupError == [ ok |-> FALSE, lon |-> 0 ]

\* earth.at(t).observe(eph[key]).apparent().ecliptic_latlon()[1].degrees:
\* a function of the immutable ephemeris, the body and the instant alone.
\* It raises when the ephemeris has no segment for the body or the instant
\* lies outside the span; e.signed is whether the library reports the
\* longitude in [-180, 180) or in [0, 360).
Observe(e, key, t) ==
    IF key \notin BodyKeys \/ key \in e.absent \/ t < EphFirst \/ t > EphLast
    THEN LookupError
    ELSE LET u   == t - 720
             d   == u \div 1440
             m   == u % 1440
             el  == MeanElements[key]
             lon == (el[1] + el[2] * d + (el[2] * m) \div 1440) % Deg(360)
         IN  [ ok  |-> TRUE,
               lon |-> IF e.signed /\ lon >= Deg(180) THEN lon - Deg(360) ELSE lon ]

\* earth_rotation_angle(t.ut1) * 360: the rotation angle, in [0, 360)
EarthRotation(t) ==
    LET u == t - 720
        d == u \div 1440
        m == u % 1440
    IN  (280461 + d * 985 + (d * 647) \div 1000 + m * 250 + (m * 6845) \div 10000)
            % Deg(360)

----------------------------------------------------------------------------
(* Positions and the chart *)

Fallback(planet_name) ==
    [ planet     |-> planet_name,
      sign       |-> "aries",
      degree     |-> 0,
      retrograde |-> FALSE,
      reading    |-> EmptyText ]

\* a position taken from the raw longitude, without the 360 added to a
\* negative value
calculate_planet_position_raw(planet_name, t, earth) ==
    LET key == IF planet_name \in DOMAIN PLANETS THEN PLANETS[planet_name]
               ELSE planet_name
        obs == Observe(earth, key, t)
    IN  IF obs.ok THEN Position(planet_name, obs.lon) ELSE Fallback(planet_name)

calculate_planet_position(planet_name, t, earth) ==
    LET key == IF planet_name = "sun" THEN "sun"
               ELSE IF planet_name = "moon" THEN "moon"
               ELSE IF planet_name \in DOMAIN PLANETS THEN PLANETS[planet_name]
               ELSE planet_name
        obs == Observe(earth, key, t)
        longitude == IF obs.lon < 0 THEN obs.lon + Deg(360) ELSE obs.lon
    IN  IF obs.ok THEN Position(planet_name, longitude) ELSE Fallback(planet_name)

\* float('nan') as a request longitude: the float field accepts it
NaN == Deg(9999)

\* a negative float smaller in magnitude than half the spacing of the floats
\* below 360.0 (about 2.8e-14), for example -1e-17
NegTiny == Deg(-9999)

\* an exception that leaves the function: int(nan) raises ValueError
Raise == [ raised |-> "ValueError" ]

\* (era * 360 + longitude) % 360 in binary floating point: nan stays nan;
\* a tiny negative term is absorbed by a rotation angle of a thousandth of a
\* degree or more, and on its own gives tiny + 360, which rounds to 360.0
LocalSiderealDegrees(era_degrees, longitude) ==
    CASE longitude = NaN     -> NaN
      [] longitude = NegTiny -> IF era_degrees = 0 THEN Deg(360) ELSE era_degrees
      [] OTHER               -> PyMod(era_degrees + longitude, Deg(360))

\* a rising sign taken at Greenwich: the geographic longitude is not added
calculate_rising_sign_greenwich(t, latitude, longitude) ==
    Position("ascendant", PyMod(EarthRotation(t), Deg(360)))

\* a rising sign that moves with the geographic latitude
calculate_rising_sign_latitude(t, latitude, longitude) ==
    Position("ascendant", PyMod(EarthRotation(t) + longitude + latitude, Deg(360)))

\* ecliptic_longitude_to_sign raises on nan, and nothing here catches it
calculate_rising_sign(t, latitude, longitude) ==
    LET lst_degrees == LocalSiderealDegrees(EarthRotation(t), longitude)
    IN  IF lst_degrees = NaN THEN Raise ELSE Position("ascendant", lst_degrees)

generate_summary(sun, moon, rising) ==
    << Title(sun.sign), Title(moon.sign), Title(rising.sign) >>

\* a planet loop under one try: the bodies after a failed one are defaults too
planet_positions_one_try(t, earth) ==
    [ i \in 1..Len(PlanetOrder) |->
        IF \E j \in 1..i : ~Observe(earth, PLANETS[PlanetOrder[j]], t).ok
        THEN Fallback(PlanetOrder[i])
        ELSE calculate_planet_position(PlanetOrder[i], t, earth) ]

\* a loop over every key of PLANETS: the sun and the moon come a second time
planet_positions_all_bodies(t, earth) ==
    LET names == << "sun", "moon" >> \o PlanetOrder
    IN  [ i \in 1..Len(names) |-> calculate_planet_position(names[i], t, earth) ]

\* the loop over the seven planets, in the order of the list
planet_positions(t, earth) ==
    [ i \in 1..Len(PlanetOrder) |->
        calculate_planet_position(PlanetOrder[i], t, earth) ]

\* a handler that looks the sun up outside calculate_planet_position's try:
\* a failed lookup of the sun ends the request
calculate_natal_chart_needs_sun(request, clock, e) ==
    LET t       == ResolveTime(request, clock).t
        earth   == e
        sun     == calculate_planet_position("sun", t, earth)
        moon    == calculate_planet_position("moon", t, earth)
        rising  == calculate_rising_sign(t, request.latitude, request.longitude)
        planets == planet_positions(t, earth)
        asc_longitude == LocalSiderealDegrees(EarthRotation(t), request.longitude)
        houses  == calculate_houses(asc_longitude)
    IN  IF rising = Raise \/ asc_longitude = NaN \/ ~Observe(earth, "sun", t).ok
        THEN Raise
        ELSE [ sun     |-> sun,
               moon    |-> moon,
               rising  |-> rising,
               planets |-> planets,
               houses  |-> houses,
               summary |-> generate_summary(sun, moon, rising) ]

\* a handler that treats the Ascendant like a body: when its computation
\* raises, the rising entry is the default and the houses start at Aries
calculate_natal_chart_guarded(request, clock, e) ==
    LET t       == ResolveTime(request, clock).t
        earth   == e
        sun     == calculate_planet_position("sun", t, earth)
        moon    == calculate_planet_position("moon", t, earth)
        risen   == calculate_rising_sign(t, request.latitude, request.longitude)
        rising  == IF risen = Raise THEN Fallback("ascendant") ELSE risen
        planets == planet_positions(t, earth)
        asc_longitude == LocalSiderealDegrees(EarthRotation(t), request.longitude)
        houses  == calculate_houses(IF asc_longitude = NaN THEN 0 ELSE asc_longitude)
    IN  [ sun     |-> sun,
          moon    |-> moon,
          rising  |-> rising,
          planets |-> planets,
          houses  |-> houses,
          summary |-> generate_summary(sun, moon, rising) ]

\* the handler of POST /natal-chart/calculate, which has no await and so
\* runs to its return without interleaving: the NatalChartResponse, or the
\* exception of calculate_rising_sign or calculate_houses, which are called
\* outside any try
calculate_natal_chart(request, clock, e) ==
    LET t       == ResolveTime(request, clock).t
        earth   == e
        sun     == calculate_planet_position("sun", t, earth)
        moon    == calculate_planet_position("moon", t, earth)
        rising  == calculate_rising_sign(t, request.latitude, request.longitude)
        planets == planet_positions(t, earth)
        asc_longitude == LocalSiderealDegrees(EarthRotation(t), request.longitude)
        houses  == calculate_houses(asc_longitude)
    IN  IF rising = Raise \/ asc_longitude = NaN
        THEN Raise
        ELSE [ sun     |-> sun,
               moon    |-> moon,
               rising  |-> rising,
               planets |-> planets,
               houses  |-> houses,
               summary |-> generate_summary(sun, moon, rising) ]

----------------------------------------------------------------------------
(* Sampled inputs *)

MaxTicks == 1
MaxTurns == 2

Date_2000_01_06 == << "2", "0", "0", "0", "-", "0", "1", "-", "0", "6" >>
Date_1999_13_45 == << "1", "9", "9", "9", "-", "1", "3", "-", "4", "5" >>
Date_1800_01_01 == << "1", "8", "0", "0", "-", "0", "1", "-", "0", "1" >>
Date_not_a_date == << "n", "o", "t", "-", "a", "-", "d", "a", "t", "e" >>
Date_2000_01    == << "2", "0", "0", "0", "-", "0", "1" >>

Time_06_30 == << "0", "6", ":", "3", "0" >>
Time_12    == << "1", "2" >>
Time_xx_00 == << "x", "x", ":", "0", "0" >>

\* the dates with three integer fields, and the times with an integer hour
\* and an integer or absent minute
IntegerDates == { Date_2000_01_06, Date_1999_13_45, Date_1800_01_01 }
IntegerTimes == { Time_06_30, Time_12 }

DateSamples == IntegerDates \cup { Date_not_a_date, Date_2000_01 }
TimeSamples == IntegerTimes \cup { Time_xx_00 }

\* birth times that are an hour alone, and the minute part ':00'
Time_06 == << "0", "6" >>
HourSamples == { Time_12, Time_06 }
MinuteZero == << ":", "0", "0" >>

\* body and sign strings, with and without an entry in the readings table
BodyStrings == ReadingBodies \cup { "pluto", "" }
SignStrings == SignSet \cup { "ophiuchus", "" }

LatitudeSamples  == { Deg(0), 40713 }
LongitudeSamples == { -74006, 7334, NaN }

\* geographic longitudes from -180 to 180
GeoLongitudes == { Deg(-180), -74006, NegTiny, 0, 7334, Deg(180) }

\* the ephemerides of a run: complete, or with one body's segment missing
Ephemerides ==
    { [ signed |-> s, absent |-> {} ] : s \in BOOLEAN }
        \cup { [ signed |-> FALSE, absent |-> { k } ] : k \in BodyKeys }

\* the system clock when the process starts
BootTime == Utc(2026, 11, 1, 9, 0)

\* longitudes in [0, 360): in every sign, its start, its middle and the
\* thousandths around the last hundredths before the next sign
LonInputs ==
    { Deg(30) * s + d : s \in 0..11, d \in { 0, 1, 15000, 29990, 29994, 29995, 29996, 29999 } }

----------------------------------------------------------------------------
(* The service *)

NoCall == [ served |-> FALSE ]
NoRet  == [ op |-> "none" ]

\* the value of the state of a router that a specification does not run
Unused == [ used |-> FALSE ]

\* the requests that the event loop holds at the same time
CallIds == { 1, 2 }
NoCalls == [ i \in CallIds |-> [ state |-> "idle" ] ]

Init ==
    /\ now = BootTime
    /\ eph \in Ephemerides
    /\ birth \in [ birth_date : DateSamples, birth_time : TimeSamples ]
    /\ last = NoCall
    /\ prev = NoCall
    /\ fnArg = 0
    /\ fnK = 0
    /\ fnRet = NoRet
    /\ calls = NoCalls
    /\ sub = Unused
    /\ tarot = Unused
    /\ journal = Unused

\* the system clock advances by a minute
Tick ==
    /\ now < BootTime + MaxTicks
    /\ now' = now + 1
    /\ UNCHANGED <<eph, birth, last, prev, fnArg, fnK, fnRet, calls, sub, tarot, journal>>

\* POST /natal-chart/calculate served at the instant `now`: the response is
\* the chart with status 200, or, when the handler raises, the framework's
\* 500 response without a chart
CalculateNatalChart(latitude, longitude) ==
    LET request == [ birth_date |-> birth.birth_date,
                     birth_time |-> birth.birth_time,
                     latitude   |-> latitude,
                     longitude  |-> longitude ]
        response == calculate_natal_chart(request, now, eph)
    IN  /\ last' = IF response = Raise
                   THEN [ served  |-> FALSE,
                          request |-> request,
                          at      |-> now,
                          status  |-> 500 ]
                   ELSE [ served  |-> TRUE,
                          request |-> request,
                          at      |-> now,
                          t       |-> ResolveTime(request, now).t,
                          status  |-> 200,
                          chart   |-> response ]
        /\ prev' = last
        /\ UNCHANGED <<now, eph, birth, fnArg, fnK, fnRet, calls, sub, tarot, journal>>

Next ==
    \/ Tick
    \/ \E latitude \in LatitudeSamples, longitude \in LongitudeSamples :
          CalculateNatalChart(latitude, longitude)

Spec == Init /\ [][Next]_vars

----------------------------------------------------------------------------
(* The sign / house mapper applied to sampled longitudes *)

InitMapper ==
    /\ now = BootTime
    /\ eph = [ signed |-> FALSE, absent |-> {} ]
    /\ birth = [ birth_date |-> Date_2000_01_06, birth_time |-> Time_06_30 ]
    /\ last = NoCall
    /\ prev = NoCall
    /\ fnArg \in LonInputs
    /\ fnK \in -MaxTurns..MaxTurns
    /\ fnRet = NoRet
    /\ calls = NoCalls
    /\ sub = Unused
    /\ tarot = Unused
    /\ journal = Unused

\* ecliptic_longitude_to_sign called on the longitude and on the longitude
\* plus fnK whole turns
ApplySign ==
    /\ fnRet = NoRet
    /\ fnRet' = [ op     |-> "sign",
                  base   |-> ecliptic_longitude_to_sign(fnArg),
                  turned |-> ecliptic_longitude_to_sign(fnArg + Deg(360) * fnK) ]
    /\ UNCHANGED <<now, eph, birth, last, prev, fnArg, fnK, calls, sub, tarot, journal>>

\* calculate_houses called on the longitude
ApplyHouses ==
    /\ fnRet = NoRet
    /\ fnRet' = [ op |-> "houses", houses |-> calculate_houses(fnArg) ]
    /\ UNCHANGED <<now, eph, birth, last, prev, fnArg, fnK, calls, sub, tarot, journal>>

\* calculate_natal_chart called on a birth time 'HH' and on 'HH:00', the
\* other fields equal
ApplyChartTimes ==
    /\ fnRet = NoRet
    /\ fnK = 0
    /\ \E date \in DateSamples, hh \in HourSamples :
          LET request(time) == [ birth_date |-> date, birth_time |-> time,
                                 latitude |-> 40713, longitude |-> Deg(180) - fnArg ]
          IN  fnRet' = [ op   |-> "times",
                         date |-> date,
                         hour |-> hh,
                         t_bare |-> ResolveTime(request(hh), now),
                         t_full |-> ResolveTime(request(hh \o MinuteZero), now),
                         bare |-> calculate_natal_chart(request(hh), now, eph),
                         full |-> calculate_natal_chart(request(hh \o MinuteZero), now, eph) ]
    /\ UNCHANGED <<now, eph, birth, last, prev, fnArg, fnK, calls, sub, tarot, journal>>

\* get_reading called on a body string and a sign string
ApplyReading ==
    /\ fnRet = NoRet
    /\ fnK = 0
    /\ \E body \in BodyStrings, sign \in SignStrings :
          fnRet' = [ op   |-> "reading",
                     body |-> body,
                     sign |-> sign,
                     text |-> get_reading(body, sign) ]
    /\ UNCHANGED <<now, eph, birth, last, prev, fnArg, fnK, calls, sub, tarot, journal>>

\* the Ascendant longitude of calculate_rising_sign for a rotation angle and
\* a geographic longitude, and its sign index
ApplyRising ==
    /\ fnRet = NoRet
    /\ fnK = 0
    /\ \E longitude \in GeoLongitudes :
          LET lst_degrees == LocalSiderealDegrees(fnArg, longitude)
          IN  fnRet' = [ op          |-> "rising",
                         longitude   |-> longitude,
                         lst_degrees |-> lst_degrees,
                         sign_index  |-> SignIndex(lst_degrees),
                         sign        |-> ecliptic_longitude_to_sign(lst_degrees).sign ]
    /\ UNCHANGED <<now, eph, birth, last, prev, fnArg, fnK, calls, sub, tarot, journal>>

NextMapper ==
    ApplySign \/ ApplyHouses \/ ApplyChartTimes \/ ApplyReading \/ ApplyRising

SpecMapper == InitMapper /\ [][NextMapper]_vars

----------------------------------------------------------------------------
(* Requests in flight together.  The handler is a coroutine without an     *)
(* await: once the event loop starts it, it runs to its return, so the     *)
(* interleavings of two requests are the orders in which they arrive and   *)
(* are run, with the clock moving in between.                              *)

InitConcurrent ==
    /\ now = BootTime
    /\ eph \in { [ signed |-> FALSE, absent |-> {} ],
                 [ signed |-> TRUE,  absent |-> {} ],
                 [ signed |-> FALSE, absent |-> { "moon" } ] }
    /\ birth \in [ birth_date : { Date_2000_01_06, Date_not_a_date },
                   birth_time : { Time_06_30 } ]
    /\ last = NoCall
    /\ prev = NoCall
    /\ fnArg = 0
    /\ fnK = 0
    /\ fnRet = NoRet
    /\ calls = NoCalls
    /\ sub = Unused
    /\ tarot = Unused
    /\ journal = Unused

\* a request arrives and waits for the event loop
Accept(i) ==
    /\ calls[i].state = "idle"
    /\ \E latitude \in LatitudeSamples, longitude \in LongitudeSamples :
          calls' = [ calls EXCEPT ![i] =
                       [ state   |-> "pending",
                         request |-> [ birth_date |-> birth.birth_date,
                                       birth_time |-> birth.birth_time,
                                       latitude   |-> latitude,
                                       longitude  |-> longitude ] ] ]
    /\ UNCHANGED <<now, eph, birth, last, prev, fnArg, fnK, fnRet, sub, tarot, journal>>

\* a handler that appends to a planets list kept at module level: the list
\* still holds the planets of the requests run before
ServeSharedList(i) ==
    /\ calls[i].state = "pending"
    /\ LET response == calculate_natal_chart(calls[i].request, now, eph)
           others   == { j \in CallIds \ { i } :
                            calls[j].state = "done" /\ calls[j].response # Raise }
           before   == IF others = {} THEN << >>
                       ELSE calls[CHOOSE j \in others : TRUE].response.planets
       IN  calls' = [ calls EXCEPT ![i] =
                        [ state    |-> "done",
                          request  |-> calls[i].request,
                          at       |-> now,
                          response |-> IF response = Raise THEN Raise
                                       ELSE [ response EXCEPT
                                                !.planets = before \o @ ] ] ]
    /\ UNCHANGED <<now, eph, birth, last, prev, fnArg, fnK, fnRet, sub, tarot, journal>>

\* the event loop runs the handler of a waiting request to its return; the
\* handler reads eph, ts and the tables and writes none of them
Serve(i) ==
    /\ calls[i].state = "pending"
    /\ calls' = [ calls EXCEPT ![i] =
                    [ state    |-> "done",
                      request  |-> calls[i].request,
                      at       |-> now,
                      response |-> calculate_natal_chart(calls[i].request, now, eph) ] ]
    /\ UNCHANGED <<now, eph, birth, last, prev, fnArg, fnK, fnRet, sub, tarot, journal>>

NextConcurrent ==
    \/ Tick
    \/ \E i \in CallIds : Accept(i)
    \/ \E i \in CallIds : Serve(i)

SpecConcurrent == InitConcurrent /\ [][NextConcurrent]_vars

----------------------------------------------------------------------------
(* The two sun-sign lookups: utils/zodiac.py and routers/pdf_report.py *)

\* a table without the row of pisces
ZODIAC_SIGNS_eleven ==
    << [ id |-> "aries",       start_month |->  3, start_day |-> 21, end_month |->  4, end_day |-> 19 ],
       [ id |-> "taurus",      start_month |->  4, start_day |-> 20, end_month |->  5, end_day |-> 20 ],
       [ id |-> "gemini",      start_month |->  5, start_day |-> 21, end_month |->  6, end_day |-> 20 ],
       [ id |-> "cancer",      start_month |->  6, start_day |-> 21, end_month |->  7, end_day |-> 22 ],
       [ id |-> "leo",         start_month |->  7, start_day |-> 23, end_month |->  8, end_day |-> 22 ],
       [ id |-> "virgo",       start_month |->  8, start_day |-> 23, end_month |->  9, end_day |-> 22 ],
       [ id |-> "libra",       start_month |->  9, start_day |-> 23, end_month |-> 10, end_day |-> 22 ],
       [ id |-> "scorpio",     start_month |-> 10, start_day |-> 23, end_month |-> 11, end_day |-> 21 ],
       [ id |-> "sagittarius", start_month |-> 11, start_day |-> 22, end_month |-> 12, end_day |-> 21 ],
       [ id |-> "capricorn",   start_month |-> 12, start_day |-> 22, end_month |->  1, end_day |-> 19 ],
       [ id |-> "aquarius",    start_month |->  1, start_day |-> 20, end_month |->  2, end_day |-> 18 ] >>

ZODIAC_SIGNS ==
    << [ id |-> "aries",       start_month |->  3, start_day |-> 21, end_month |->  4, end_day |-> 19 ],
       [ id |-> "taurus",      start_month |->  4, start_day |-> 20, end_month |->  5, end_day |-> 20 ],
       [ id |-> "gemini",      start_month |->  5, start_day |-> 21, end_month |->  6, end_day |-> 20 ],
       [ id |-> "cancer",      start_month |->  6, start_day |-> 21, end_month |->  7, end_day |-> 22 ],
       [ id |-> "leo",         start_month |->  7, start_day |-> 23, end_month |->  8, end_day |-> 22 ],
       [ id |-> "virgo",       start_month |->  8, start_day |-> 23, end_month |->  9, end_day |-> 22 ],
       [ id |-> "libra",       start_month |->  9, start_day |-> 23, end_month |-> 10, end_day |-> 22 ],
       [ id |-> "scorpio",     start_month |-> 10, start_day |-> 23, end_month |-> 11, end_day |-> 21 ],
       [ id |-> "sagittarius", start_month |-> 11, start_day |-> 22, end_month |-> 12, end_day |-> 21 ],
       [ id |-> "capricorn",   start_month |-> 12, start_day |-> 22, end_month |->  1, end_day |-> 19 ],
       [ id |-> "aquarius",    start_month |->  1, start_day |-> 20, end_month |->  2, end_day |-> 18 ],
       [ id |-> "pisces",      start_month |->  2, start_day |-> 19, end_month |->  3, end_day |-> 20 ] >>

\* get_zodiac_sign_id of utils/zodiac.py on birth_date.month and
\* birth_date.day: the first row of the table whose test holds (both
\* branches of the start_m > end_m test are the same condition), or the
\* default after the loop; `fallback` tells which
get_zodiac_sign_id(month, day) ==
    LET hit(i) == LET sign == ZODIAC_SIGNS[i]
                  IN  \/ (month = sign.start_month /\ day >= sign.start_day)
                      \/ (month = sign.end_month /\ day <= sign.end_day)
        hits   == { i \in 1..Len(ZODIAC_SIGNS) : hit(i) }
    IN  IF hits = {}
        THEN [ id |-> "capricorn", fallback |-> TRUE ]
        ELSE [ id |-> ZODIAC_SIGNS[CHOOSE i \in hits : \A j \in hits : i <= j].id,
               fallback |-> FALSE ]

\* get_zodiac_sign of routers/pdf_report.py: the chain of tests in order
get_zodiac_sign(month, day) ==
    CASE (month = 3 /\ day >= 21) \/ (month = 4 /\ day <= 19) -> "aries"
      [] (month = 4 /\ day >= 20) \/ (month = 5 /\ day <= 20) -> "taurus"
      [] (month = 5 /\ day >= 21) \/ (month = 6 /\ day <= 20) -> "gemini"
      [] (month = 6 /\ day >= 21) \/ (month = 7 /\ day <= 22) -> "cancer"
      [] (month = 7 /\ day >= 23) \/ (month = 8 /\ day <= 22) -> "leo"
      [] (month = 8 /\ day >= 23) \/ (month = 9 /\ day <= 22) -> "virgo"
      [] (month = 9 /\ day >= 23) \/ (month = 10 /\ day <= 22) -> "libra"
      [] (month = 10 /\ day >= 23) \/ (month = 11 /\ day <= 21) -> "scorpio"
      [] (month = 11 /\ day >= 22) \/ (month = 12 /\ day <= 21) -> "sagittarius"
      [] (month = 12 /\ day >= 22) \/ (month = 1 /\ day <= 19) -> "capricorn"
      [] (month = 1 /\ day >= 20) \/ (month = 2 /\ day <= 18) -> "aquarius"
      [] OTHER -> "pisces"

\* the days of a month of the calendar, 29 February included
DaysInMonth(month) ==
    IF month = 2 THEN 29
    ELSE IF month \in { 4, 6, 9, 11 } THEN 30
    ELSE 31

\* a birth date: fnArg is its month and fnK its day
InitZodiac ==
    /\ now = BootTime
    /\ eph = [ signed |-> FALSE, absent |-> {} ]
    /\ birth = [ birth_date |-> Date_2000_01_06, birth_time |-> Time_06_30 ]
    /\ last = NoCall
    /\ prev = NoCall
    /\ fnArg \in 1..12
    /\ fnK \in 1..DaysInMonth(fnArg)
    /\ fnRet = NoRet
    /\ calls = NoCalls
    /\ sub = Unused
    /\ tarot = Unused
    /\ journal = Unused

\* both lookups called on the birth date
ApplyZodiac ==
    /\ fnRet = NoRet
    /\ fnRet' = [ op      |-> "zodiac",
                  sign_id |-> get_zodiac_sign_id(fnArg, fnK),
                  sign    |-> get_zodiac_sign(fnArg, fnK) ]
    /\ UNCHANGED <<now, eph, birth, last, prev, fnArg, fnK, calls, sub, tarot, journal>>

NextZodiac == ApplyZodiac

SpecZodiac == InitZodiac /\ [][NextZodiac]_vars

\* None of Python, for a field or column without a value
None == "None"

----------------------------------------------------------------------------
(* Subscriptions: routers/subscription.py on one row of the users table.   *)
(* Instants are seconds; a naive datetime is the number of seconds it      *)
(* shows.  The handlers commit at their end: a handler that raises before  *)
(* db.commit() leaves the row as it was, the session being closed without  *)
(* a commit (database.py:21-27).                                           *)

MaxDays == 2

\* seconds in a day (timedelta(days=1))
Day == 86400

PurchaseTypes == { "INITIAL_PURCHASE", "RENEWAL", "PRODUCT_CHANGE" }
LapseTypes == { "EXPIRATION", "BILLING_ISSUE" }
EventTypes == PurchaseTypes \cup LapseTypes \cup { "CANCELLATION", "TEST" }

\* subscription_expires_at IS NULL
NoTime == 0 - 1

\* an event without expiration_at_ms, or with null for it
NoExpiration == 0 - 1

\* an expiration_at_ms that datetime.fromtimestamp cannot take: not a
\* number, or a number beyond the year 9999
Unconvertible == 0 - 2

\* expiration_at_ms of an event: missing or null, zero, two days after the
\* epoch of the model, or unconvertible
ExpirationSamples == { NoExpiration, 0, 2 * Day * 1000, Unconvertible }

UserEmail == "ada@example.com"

\* the webhook events sent to the endpoint
WebhookEvents ==
    [ type             : EventTypes,
      app_user_id      : { "", "rc_1", "rc_9" },
      email            : { None, UserEmail },
      product_id       : { "pro_monthly" },
      expiration_at_ms : ExpirationSamples ]

\* a premium test that looks at the tier alone
is_premium_by_tier(user, utcnow) ==
    user.subscription_tier = "premium"

\* User.is_premium, with datetime.utcnow() = utcnow
is_premium(user, utcnow) ==
    IF user.subscription_tier # "premium" THEN FALSE
    ELSE IF user.subscription_expires_at = NoTime THEN FALSE
    ELSE user.subscription_expires_at > utcnow

\* the user that the webhook finds for the event: by revenuecat_id, then by
\* the $email attribute
KnownUser(user, event) ==
    /\ event.app_user_id # ""
    /\ \/ user.revenuecat_id = event.app_user_id
       \/ (event.email # None /\ user.email = event.email)

\* a webhook that sets the tier on a purchase and leaves the expiry alone
handle_revenuecat_webhook_tier_only(user, event, utcnow, utcoffset) ==
    IF KnownUser(user, event) /\ event.type \in PurchaseTypes
    THEN [ user     |-> [ user EXCEPT !.subscription_tier = "premium" ],
           response |-> [ status |-> "ok", event_type |-> event.type ] ]
    ELSE [ user     |-> user,
           response |-> [ status |-> "ignored" ] ]

\* a webhook that ends the subscription at once on CANCELLATION
handle_revenuecat_webhook_cancel_now(user, event, utcnow, utcoffset) ==
    IF KnownUser(user, event) /\ event.type = "CANCELLATION"
    THEN [ user     |-> [ user EXCEPT !.subscription_tier = "free" ],
           response |-> [ status |-> "ok", event_type |-> event.type ] ]
    ELSE [ user     |-> user,
           response |-> [ status |-> "ignored" ] ]

\* POST /subscription/webhook: the row after the request, and the response.
\* datetime.fromtimestamp gives the local time of the server, utcoffset
\* seconds ahead of UTC.
handle_revenuecat_webhook(user, event, utcnow, utcoffset) ==
    LET event_type    == event.type
        subscriber_id == event.app_user_id
        expiration    == event.expiration_at_ms
    IN  IF subscriber_id = ""
        THEN [ user     |-> user,
               response |-> [ status |-> "ignored", reason |-> "no subscriber_id" ] ]
        ELSE IF ~KnownUser(user, event)
        THEN [ user     |-> user,
               response |-> [ status |-> "ignored", reason |-> "user not found" ] ]
        ELSE IF event_type \in PurchaseTypes
        THEN IF expiration = Unconvertible
             THEN [ user     |-> user,
                    response |-> [ status |-> "error" ] ]
             ELSE [ user     |-> [ user EXCEPT
                                     !.subscription_tier = "premium",
                                     !.subscription_product_id = event.product_id,
                                     !.subscription_expires_at =
                                         IF expiration # NoExpiration /\ expiration # 0
                                         THEN expiration \div 1000 + utcoffset
                                         ELSE utcnow + 30 * Day ],
                    response |-> [ status |-> "ok", event_type |-> event_type ] ]
        ELSE IF event_type \in LapseTypes
        THEN [ user     |-> [ user EXCEPT !.subscription_tier = "free" ],
               response |-> [ status |-> "ok", event_type |-> event_type ] ]
        ELSE [ user     |-> user,
               response |-> [ status |-> "ok", event_type |-> event_type ] ]

\* a restore that switches a row whose expiry is still ahead back to premium
restore_purchases_reactivating(user, request, utcnow) ==
    [ user EXCEPT
        !.revenuecat_id = request.revenuecat_customer_id,
        !.subscription_platform = request.platform,
        !.subscription_tier =
            IF user.subscription_expires_at # NoTime
               /\ user.subscription_expires_at > utcnow
            THEN "premium" ELSE @ ]

\* POST /subscription/restore
restore_purchases(user, request, utcnow) ==
    [ user EXCEPT
        !.revenuecat_id = request.revenuecat_customer_id,
        !.subscription_platform = request.platform ]

\* POST /subscription/grant-premium
grant_premium(user, days, utcnow) ==
    [ user EXCEPT
        !.subscription_tier = "premium",
        !.subscription_expires_at = utcnow + days * Day,
        !.subscription_platform = "test" ]

\* POST /subscription/revoke-premium
revoke_premium(user) ==
    [ user EXCEPT
        !.subscription_tier = "free",
        !.subscription_expires_at = NoTime,
        !.subscription_platform = None,
        !.subscription_product_id = None ]

\* a user as the columns' defaults leave it after registration
NewUser ==
    [ email                   |-> UserEmail,
      subscription_tier       |-> "free",
      subscription_expires_at |-> NoTime,
      subscription_platform   |-> None,
      subscription_product_id |-> None,
      revenuecat_id           |-> None ]

InitSub ==
    /\ now = BootTime
    /\ eph = [ signed |-> FALSE, absent |-> {} ]
    /\ birth = [ birth_date |-> Date_2000_01_06, birth_time |-> Time_06_30 ]
    /\ last = NoCall
    /\ prev = NoCall
    /\ fnArg = 0
    /\ fnK = 0
    /\ fnRet = NoRet
    /\ calls = NoCalls
    /\ \E utcoffset \in { 0, 2 * 3600 } :
          sub = [ utcnow    |-> Day,
                  utcoffset |-> utcoffset,
                  user      |-> NewUser,
                  lapsed    |-> FALSE,
                  ev        |-> [ op |-> "none" ] ]
    /\ tarot = Unused
    /\ journal = Unused

\* a day passes
SubTick ==
    /\ sub.utcnow < Day * (1 + MaxDays)
    /\ sub' = [ sub EXCEPT !.utcnow = @ + Day, !.ev = [ op |-> "tick" ] ]
    /\ UNCHANGED <<chartVars, tarot, journal>>

\* RevenueCat (or anyone else: the endpoint takes any caller) posts an
\* event; lapsed records that an EXPIRATION or BILLING_ISSUE was processed
\* for the user and no purchase-type event came after it
Webhook(event) ==
    LET done == handle_revenuecat_webhook(sub.user, event, sub.utcnow, sub.utcoffset)
    IN  /\ sub' = [ sub EXCEPT
                      !.user   = done.user,
                      !.lapsed = IF ~KnownUser(sub.user, event) THEN @
                                 ELSE IF event.type \in LapseTypes THEN TRUE
                                 ELSE IF event.type \in PurchaseTypes THEN FALSE
                                 ELSE @,
                      !.ev     = [ op               |-> "webhook",
                                   type             |-> event.type,
                                   known            |-> KnownUser(sub.user, event),
                                   expiration_at_ms |-> event.expiration_at_ms,
                                   status           |-> done.response.status ] ]
        /\ UNCHANGED <<chartVars, tarot, journal>>

RestorePurchases ==
    /\ sub' = [ sub EXCEPT
                  !.user = restore_purchases(sub.user,
                                             [ revenuecat_customer_id |-> "rc_1",
                                               platform |-> "ios" ],
                                             sub.utcnow),
                  !.ev   = [ op |-> "restore" ] ]
    /\ UNCHANGED <<chartVars, tarot, journal>>

GrantPremium(days) ==
    /\ sub' = [ sub EXCEPT
                  !.user   = grant_premium(sub.user, days, sub.utcnow),
                  !.lapsed = FALSE,
                  !.ev     = [ op |-> "grant", days |-> days ] ]
    /\ UNCHANGED <<chartVars, tarot, journal>>

RevokePremium ==
    /\ sub' = [ sub EXCEPT
                  !.user = revoke_premium(sub.user),
                  !.ev   = [ op |-> "revoke" ] ]
    /\ UNCHANGED <<chartVars, tarot, journal>>

NextSub ==
    \/ SubTick
    \/ \E event \in WebhookEvents : Webhook(event)
    \/ RestorePurchases
    \/ \E days \in { 1, 30 } : GrantPremium(days)
    \/ RevokePremium

SpecSub == InitSub /\ [][NextSub]_vars

----------------------------------------------------------------------------
(* The daily tarot card: get_daily_card of routers/tarot.py on the         *)
(* tarot_history rows of one user.  Instants are quarters of a day (six    *)
(* hours) of UTC; a date is the number of its day.  The handler's query    *)
(* and its insert are two statements on the database: requests served by   *)
(* different worker processes interleave between them, and nothing in the  *)
(* table (no unique constraint) or in the handler (no lock) orders them.   *)

MaxQuarters == 4
MaxRows == 3

\* quarters in a day
Quarters == 4

\* the user's timezone column, and the offset of each zone from UTC in
\* quarters of a day (a name pytz does not know falls back to UTC)
Timezones == { "UTC", "Pacific/Fiji", "America/Costa_Rica", "Mars/Olympus" }

UtcOffset(timezone_str) ==
    CASE timezone_str = "Pacific/Fiji"       -> 2
      [] timezone_str = "America/Costa_Rica" -> 0 - 1
      [] OTHER                               -> 0

\* the date part of a UTC instant
DateOf(instant) == instant \div Quarters

\* get_user_today(timezone_str): datetime.now(tz).date()
get_user_today(timezone_str, utcnow) == DateOf(utcnow + UtcOffset(timezone_str))

\* hash(str(current_user.id)) % 1000, fixed for a user within a process
UserHash == 417

\* random.choice(MAJOR_ARCANA) and random.random() < 0.33 right after
\* random.seed(day_seed): fixed functions of the seed
SeededDraw(day_seed) ==
    [ card_id |-> << "seeded", day_seed >>, is_reversed |-> day_seed % 3 = 0 ]

\* the draws that random.seed() without a seed can give
RandomDraws ==
    [ card_id : { << "random", 0 >>, << "random", 1 >> }, is_reversed : BOOLEAN ]

\* the rows with position 'single' that have the latest reading_date
LatestSingle(rows) ==
    { i \in 1..Len(rows) :
        /\ rows[i].position = "single"
        /\ \A j \in 1..Len(rows) :
              rows[j].position = "single" => rows[j].reading_date <= rows[i].reading_date }

\* whether the handler looks for today's row: 'if not force_new or not
\* current_user.is_premium'
LooksForExisting(force_new, premium) == ~force_new \/ ~premium

\* whether a latest row counts as drawn today:
\* 'existing.reading_date.date() == today', the date of the UTC reading_date
\* against the date in the user's timezone
DrawnToday(existing, today) == DateOf(existing.reading_date) = today

InitTarot ==
    /\ now = BootTime
    /\ eph = [ signed |-> FALSE, absent |-> {} ]
    /\ birth = [ birth_date |-> Date_2000_01_06, birth_time |-> Time_06_30 ]
    /\ last = NoCall
    /\ prev = NoCall
    /\ fnArg = 0
    /\ fnK = 0
    /\ fnRet = NoRet
    /\ calls = NoCalls
    /\ sub = Unused
    /\ \E timezone \in Timezones, premium \in BOOLEAN :
          tarot = [ utcnow   |-> Quarters,
                    timezone |-> timezone,
                    premium  |-> premium,
                    rows     |-> << >>,
                    forced   |-> FALSE,
                    reqs     |-> [ r \in CallIds |-> [ state |-> "idle" ] ],
                    ev       |-> [ op |-> "none" ] ]
    /\ journal = Unused

\* six hours pass; a request lasts far less, so none is in flight
TarotTick ==
    /\ tarot.utcnow < Quarters + MaxQuarters
    /\ \A r \in CallIds : tarot.reqs[r].state = "idle"
    /\ tarot' = [ tarot EXCEPT !.utcnow = @ + 1 ]
    /\ UNCHANGED <<chartVars, sub, journal>>

\* the response for a row found or made
DailyTarotResponse(r, today, force_new, row, already_drawn, rows_before) ==
    [ op            |-> "daily",
      request       |-> r,
      today         |-> today,
      force_new     |-> force_new,
      card_id       |-> row.card_id,
      is_reversed   |-> row.is_reversed,
      already_drawn |-> already_drawn,
      added         |-> IF already_drawn THEN 0 ELSE 1,
      rows_before   |-> rows_before ]

\* GET /tarot/daily up to its query: today's date, the query for the latest
\* row, and the early return when that row is today's
BeginDaily(r, force_new) ==
    LET today  == get_user_today(tarot.timezone, tarot.utcnow)
        latest == LatestSingle(tarot.rows)
        busy   == Cardinality({ q \in CallIds : tarot.reqs[q].state = "drawing" })
    IN  /\ tarot.reqs[r].state = "idle"
        /\ Len(tarot.rows) + busy < MaxRows
        /\ \/ /\ LooksForExisting(force_new, tarot.premium)
              /\ \E i \in latest :
                    /\ DrawnToday(tarot.rows[i], today)
                    /\ tarot' = [ tarot EXCEPT
                                    !.ev = DailyTarotResponse(r, today, force_new,
                                                              tarot.rows[i], TRUE,
                                                              Len(tarot.rows)) ]
           \/ /\ \/ ~LooksForExisting(force_new, tarot.premium)
                 \/ latest = {}
                 \/ \E i \in latest : ~DrawnToday(tarot.rows[i], today)
              /\ tarot' = [ tarot EXCEPT
                              !.forced = @ \/ (force_new /\ tarot.premium),
                              !.reqs[r] = [ state       |-> "drawing",
                                            today       |-> today,
                                            force_new   |-> force_new,
                                            rows_before |-> Len(tarot.rows) ] ]
        /\ UNCHANGED <<chartVars, sub, journal>>

\* the rest of GET /tarot/daily: the draw, the insert with reading_date =
\* datetime.utcnow() and the commit
FinishDaily(r) ==
    LET req   == tarot.reqs[r]
        draws == IF req.force_new /\ tarot.premium
                 THEN RandomDraws
                 ELSE { SeededDraw(req.today + UserHash) }
    IN  /\ req.state = "drawing"
        /\ \E draw \in draws :
              LET history == [ card_id      |-> draw.card_id,
                               is_reversed  |-> draw.is_reversed,
                               position     |-> "single",
                               reading_date |-> tarot.utcnow ]
              IN  tarot' = [ tarot EXCEPT
                               !.rows = Append(@, history),
                               !.reqs[r] = [ state |-> "idle" ],
                               !.ev = DailyTarotResponse(r, req.today, req.force_new,
                                                         history, FALSE,
                                                         req.rows_before) ]
        /\ UNCHANGED <<chartVars, sub, journal>>

NextTarot ==
    \/ TarotTick
    \/ \E r \in CallIds, force_new \in BOOLEAN : BeginDaily(r, force_new)
    \/ \E r \in CallIds : FinishDaily(r)

SpecTarot == InitTarot /\ [][NextTarot]_vars

----------------------------------------------------------------------------
(* The journal: routers/journal.py on the journal_entries table.  A row is *)
(* a record; ids are given out in order and never again, as uuid4 values   *)
(* are.                                                                    *)

MaxEntries == 2

JournalUsers == { "u1", "u2" }
Intentions == { "rest", "travel" }
ManifestationStatus == { "pending", "in_progress", "manifested" }

NotFound == [ status |-> 404, detail |-> "Entry not found" ]

\* db.query(JournalEntry).filter(id == entry_id, user_id == current_user.id).first()
OwnedEntry(entries, current_user, entry_id) ==
    { e \in entries : e.id = entry_id /\ e.user_id = current_user }

\* GET /journal: the caller's rows, newest first, after offset and limit
get_journal_entries(entries, current_user, skip, limit) ==
    LET own     == { e \in entries : e.user_id = current_user }
        newer(e) == Cardinality({ o \in own : o.id > e.id })
        ordered == [ i \in 1..Cardinality(own) |->
                       CHOOSE e \in own : newer(e) = i - 1 ]
        upto    == IF skip + limit < Len(ordered) THEN skip + limit ELSE Len(ordered)
    IN  [ status |-> 200, body |-> SubSeq(ordered, skip + 1, upto), entries |-> entries ]

\* POST /journal
create_journal_entry(entries, current_user, entry, new_id) ==
    LET db_entry == [ id        |-> new_id,
                      user_id   |-> current_user,
                      intention |-> entry.intention,
                      status    |-> "pending" ]
    IN  [ status |-> 200, body |-> db_entry, entries |-> entries \cup { db_entry } ]

\* GET /journal/{entry_id}
get_journal_entry(entries, current_user, entry_id) ==
    LET found == OwnedEntry(entries, current_user, entry_id)
    IN  IF found = {}
        THEN NotFound @@ [ entries |-> entries ]
        ELSE [ status |-> 200, body |-> CHOOSE e \in found : TRUE, entries |-> entries ]

\* PUT /journal/{entry_id}: the fields that were sent are set on the row
update_journal_entry(entries, current_user, entry_id, update) ==
    LET found == OwnedEntry(entries, current_user, entry_id)
    IN  IF found = {}
        THEN NotFound @@ [ entries |-> entries ]
        ELSE IF update.status # None /\ update.status \notin ManifestationStatus
        THEN [ status |-> 400, detail |-> "Invalid status", entries |-> entries ]
        ELSE LET entry   == CHOOSE e \in found : TRUE
                 changed == [ entry EXCEPT
                                !.intention = IF update.intention = None THEN @
                                              ELSE update.intention,
                                !.status    = IF update.status = None THEN @
                                              ELSE update.status ]
             IN  [ status  |-> 200,
                   body    |-> changed,
                   entries |-> (entries \ { entry }) \cup { changed } ]

\* a delete that looks the row up by its id alone
delete_journal_entry_by_id(entries, current_user, entry_id) ==
    LET found == { e \in entries : e.id = entry_id }
    IN  IF found = {}
        THEN NotFound @@ [ entries |-> entries ]
        ELSE [ status |-> 200, entries |-> entries \ found ]

\* DELETE /journal/{entry_id}
delete_journal_entry(entries, current_user, entry_id) ==
    LET found == OwnedEntry(entries, current_user, entry_id)
    IN  IF found = {}
        THEN NotFound @@ [ entries |-> entries ]
        ELSE [ status |-> 200, entries |-> entries \ found ]

InitJournal ==
    /\ now = BootTime
    /\ eph = [ signed |-> FALSE, absent |-> {} ]
    /\ birth = [ birth_date |-> Date_2000_01_06, birth_time |-> Time_06_30 ]
    /\ last = NoCall
    /\ prev = NoCall
    /\ fnArg = 0
    /\ fnK = 0
    /\ fnRet = NoRet
    /\ calls = NoCalls
    /\ sub = Unused
    /\ tarot = Unused
    /\ journal = [ entries |-> {}, made |-> 0, ev |-> [ op |-> "none" ] ]

\* the table after a request, with the request and its response kept in ev
Journaled(op, current_user, entry_id, response) ==
    journal' = [ journal EXCEPT
                   !.entries = response.entries,
                   !.made = IF op = "create" THEN @ + 1 ELSE @,
                   !.ev = [ op       |-> op,
                            user     |-> current_user,
                            entry_id |-> entry_id,
                            before   |-> journal.entries,
                            status   |-> response.status,
                            body     |-> IF "body" \in DOMAIN response
                                         THEN response.body ELSE None ] ]

CreateEntry(current_user) ==
    /\ journal.made < MaxEntries
    /\ \E intention \in Intentions :
          Journaled("create", current_user, journal.made + 1,
                    create_journal_entry(journal.entries, current_user,
                                         [ intention |-> intention ],
                                         journal.made + 1))
    /\ UNCHANGED <<chartVars, sub, tarot>>

ListEntries(current_user) ==
    /\ \E skip \in { 0, 1 } :
          Journaled("list", current_user, None,
                    get_journal_entries(journal.entries, current_user, skip, 50))
    /\ UNCHANGED <<chartVars, sub, tarot>>

GetEntry(current_user, entry_id) ==
    /\ Journaled("get", current_user, entry_id,
                 get_journal_entry(journal.entries, current_user, entry_id))
    /\ UNCHANGED <<chartVars, sub, tarot>>

UpdateEntry(current_user, entry_id) ==
    /\ \E intention \in { None, "travel" },
          status \in { None, "manifested", "done" } :
          Journaled("update", current_user, entry_id,
                    update_journal_entry(journal.entries, current_user, entry_id,
                                         [ intention |-> intention, status |-> status ]))
    /\ UNCHANGED <<chartVars, sub, tarot>>

DeleteEntry(current_user, entry_id) ==
    /\ Journaled("delete", current_user, entry_id,
                 delete_journal_entry(journal.entries, current_user, entry_id))
    /\ UNCHANGED <<chartVars, sub, tarot>>

NextJournal ==
    \E current_user \in JournalUsers :
        \/ CreateEntry(current_user)
        \/ ListEntries(current_user)
        \/ \E entry_id \in 1..MaxEntries :
              \/ GetEntry(current_user, entry_id)
              \/ UpdateEntry(current_user, entry_id)
              \/ DeleteEntry(current_user, entry_id)

SpecJournal == InitJournal /\ [][NextJournal]_vars

----------------------------------------------------------------------------
(* Claims on the sign / house mapper (SpecMapper) *)

\* C1: for every longitude L in [0,360), ecliptic_longitude_to_sign(L)
\* returns the sign SIGNS[floor(L/30) mod 12] and the degree L mod 30, and
\* the degree lies in [0,30).
C1_SignAndDegree ==
    fnRet.op = "sign" =>
        LET q == fnArg \div Deg(30)
        IN  /\ fnRet.base.sign = SIGNS[(q % 12) + 1]
            /\ fnRet.base.degree = fnArg - Deg(30) * q
            /\ 0 <= fnRet.base.degree
            /\ fnRet.base.degree < Deg(30)

C1_Witness ==
    /\ fnRet.op = "sign"
    /\ fnArg = Deg(359) + 999
    /\ fnRet.base.sign = "pisces"
    /\ fnRet.base.degree = 29999

\* C2: periodicity: ecliptic_longitude_to_sign(L) and
\* ecliptic_longitude_to_sign(L + 360*k) are the same (sign, degree), for
\* every longitude L, negative ones included, and every integer k.
C2_Periodicity ==
    fnRet.op = "sign" => fnRet.base = fnRet.turned

\* C3: whole-sign houses: for an Ascendant longitude of sign index A,
\* calculate_houses returns exactly 12 houses numbered 1..12 in order, and
\* house i+1 has the sign SIGNS[(A+i) mod 12] for i = 0..11.
C3_WholeSignHouses ==
    fnRet.op = "houses" =>
        LET A == (fnArg \div Deg(30)) % 12
        IN  /\ Len(fnRet.houses) = 12
            /\ \A i \in 0..11 :
                  /\ fnRet.houses[i + 1].house = i + 1
                  /\ fnRet.houses[i + 1].sign = SIGNS[((A + i) % 12) + 1]

C3_Witness ==
    /\ fnRet.op = "houses"
    /\ fnArg = Deg(345)
    /\ fnRet.houses[1].sign = "pisces"
    /\ fnRet.houses[2].sign = "aries"
    /\ fnRet.houses[12].sign = "aquarius"

\* C13: sign boundaries: longitude 0.0 maps to Aries with degree 0.0,
\* longitude 359.99 maps to Pisces with degree 29.99, and every exact
\* multiple of 30 in [0,360) belongs to the sign that begins there, with
\* degree 0 (never to the preceding sign with degree 30).
C13_SignBoundaries ==
    fnRet.op = "sign" =>
        /\ fnArg = 0 => fnRet.base = [ sign |-> "aries", degree |-> 0 ]
        /\ fnArg = Deg(359) + 990 =>
              fnRet.base = [ sign |-> "pisces", degree |-> 29990 ]
        /\ \A s \in 0..11 :
              fnArg = Deg(30) * s =>
                  fnRet.base = [ sign |-> SIGNS[s + 1], degree |-> 0 ]

C13_Witness ==
    /\ fnRet.op = "sign"
    /\ fnArg = Deg(330)
    /\ fnRet.base = [ sign |-> "pisces", degree |-> 0 ]

\* C17: minutes are optional: a birth_time with an hour and no minute part
\* (no ':') resolves with minute 0, so the chart for 'HH' equals the chart
\* for 'HH:00' with the other fields equal.
C17_MinutesOptional ==
    fnRet.op = "times" =>
        /\ fnRet.bare = fnRet.full
        /\ fnRet.t_bare = fnRet.t_full
        /\ fnRet.date \in IntegerDates =>
              LET date_parts == Split(fnRet.date, "-")
              IN  /\ fnRet.t_bare.parsed
                  /\ fnRet.t_bare.t = Utc(ParseInt(date_parts[1]).val,
                                          ParseInt(date_parts[2]).val,
                                          ParseInt(date_parts[3]).val,
                                          ParseInt(fnRet.hour).val, 0)

C17_Witness ==
    /\ fnRet.op = "times"
    /\ fnRet.date = Date_2000_01_06
    /\ fnRet.hour = Time_06
    /\ fnRet.t_bare.parsed
    /\ fnRet.t_full.t = Utc(2000, 1, 6, 6, 0)
    /\ fnRet.bare = fnRet.full

\* C18: get_reading(body, sign) returns the table text when
\* PLANET_SIGN_READINGS has an entry for (body, sign), and otherwise the
\* generic sentence that names the title-cased body and sign; it never
\* returns an empty string, for any body and sign strings.
C18_ReadingOrGeneric ==
    fnRet.op = "reading" =>
        /\ fnRet.text # EmptyText
        /\ (fnRet.body \in ReadingBodies /\ fnRet.sign \in SignSet)
              => fnRet.text = PLANET_SIGN_READINGS(fnRet.body, fnRet.sign)
        /\ (fnRet.body \notin ReadingBodies \/ fnRet.sign \notin SignSet)
              => /\ fnRet.text[1] = "generic"
                 /\ fnRet.text[2] = Title(fnRet.body)
                 /\ fnRet.text[3] = Title(fnRet.sign)

C18_Witness ==
    /\ fnRet.op = "reading"
    /\ fnRet.body = "pluto"
    /\ fnRet.sign = "leo"
    /\ fnRet.text = << "generic", Title("pluto"), Title("leo") >>

\* C19: the Ascendant longitude (earth_rotation_fraction * 360 +
\* geographic_longitude) mod 360 lies in [0,360) for every rotation fraction
\* in [0,1) and every geographic longitude in [-180,180], negative (western)
\* longitudes included, so the rising sign index is always in 0..11.
C19_AscendantLongitudeRange ==
    fnRet.op = "rising" =>
        /\ 0 <= fnRet.lst_degrees
        /\ fnRet.lst_degrees < Deg(360)
        /\ fnRet.sign_index \in 0..11

----------------------------------------------------------------------------
(* Claims on the chart service (Spec) *)

\* whether the birth data of the run have three integer date fields, an
\* integer hour and an integer or absent minute
WellFormedBirth ==
    birth.birth_date \in IntegerDates /\ birth.birth_time \in IntegerTimes

\* the positions of a chart, the rising position first
Positions(chart) == << chart.rising, chart.sun, chart.moon >> \o chart.planets

\* the nine bodies in the order sun, moon, planets
BodyNames == << "sun", "moon" >> \o PlanetOrder

BodyEntries(chart) == << chart.sun, chart.moon >> \o chart.planets

\* C4 as stated: two calls with identical request fields return identical
\* charts, whatever the time at which each request is served.
C4_Determinism ==
    (last.served /\ prev.served /\ last.request = prev.request)
        => last.chart = prev.chart

\* C4 as amended: two calls with identical request fields whose birth_date
\* and birth_time parse return identical charts, whatever the time at which
\* each is served.
C4_DeterminismWhenParsed ==
    (last.served /\ prev.served /\ last.request = prev.request /\ WellFormedBirth)
        => last.chart = prev.chart

C4_Witness ==
    /\ last.served /\ prev.served
    /\ last.request = prev.request
    /\ WellFormedBirth
    /\ last.at # prev.at
    /\ last.chart = prev.chart
    /\ last.chart.sun.sign # "aries"

C6_FailureIsolation ==
    last.served =>
        LET whole == calculate_natal_chart(last.request, last.at,
                                           [ eph EXCEPT !.absent = {} ])
        IN  \A i \in 1..Len(BodyNames) :
              LET entry == BodyEntries(last.chart)[i]
              IN  /\ ~Observe(eph, PLANETS[BodyNames[i]], last.t).ok =>
                        /\ entry.planet = BodyNames[i]
                        /\ entry.sign = "aries"
                        /\ entry.degree = 0
                        /\ entry.retrograde = FALSE
                  /\ PLANETS[BodyNames[i]] \notin eph.absent =>
                        entry = BodyEntries(whole)[i]

C6_Witness ==
    /\ last.served
    /\ eph.absent = { "mars barycenter" }
    /\ WellFormedBirth /\ birth.birth_date = Date_2000_01_06
    /\ last.chart.planets[3].planet = "mars"
    /\ last.chart.planets[3].sign = "aries"
    /\ last.chart.planets[3].degree = 0
    /\ last.chart.planets[4].sign # "aries"
    /\ last.chart.planets[4].degree # 0
    /\ last.chart.sun.degree # 0

\* C7: in every returned chart the degree reported for each position
\* (longitude mod 30, rounded to 2 decimal places) satisfies
\* 0 <= degree < 30, also for a longitude within 0.005 degrees below a sign
\* boundary.
C7_DegreeBelowThirty ==
    last.served =>
        \A i \in 1..Len(Positions(last.chart)) :
            /\ 0 <= Positions(last.chart)[i].degree
            /\ Positions(last.chart)[i].degree < Deg(30)

\* C8: in every returned chart the sign of house 1 is the sign of the
\* rising position of the same chart.
C8_FirstHouseIsRising ==
    last.served => last.chart.houses[1].sign = last.chart.rising.sign

C8_Witness ==
    /\ last.served /\ prev.served
    /\ last.chart.houses[1].house = 1
    /\ last.chart.houses[1].sign = last.chart.rising.sign
    /\ prev.chart.houses[1].sign = prev.chart.rising.sign
    /\ last.chart.rising.sign # prev.chart.rising.sign

\* C9: latitude is ignored: two requests that differ only in latitude and
\* resolve to the same time return identical charts, the rising position
\* and the 12 houses included.
C9_LatitudeIgnored ==
    ( /\ last.served /\ prev.served
      /\ last.request.longitude = prev.request.longitude
      /\ last.t = prev.t )
        => last.chart = prev.chart

C9_Witness ==
    /\ last.served /\ prev.served
    /\ last.request.latitude # prev.request.latitude
    /\ last.request.longitude = prev.request.longitude
    /\ last.t = prev.t
    /\ last.chart.rising = prev.chart.rising
    /\ last.chart.houses = prev.chart.houses

\* C10: the civil birth time is taken as UTC with no adjustment for the
\* birth location: for a parsable birth_date and birth_time the Sun, Moon
\* and seven planet entries are the same for every latitude and longitude
\* (and with them the Sun and Moon names of the summary); the geographic
\* longitude reaches the rising position and the houses only.
C10_BodiesIgnoreLocation ==
    (last.served /\ prev.served /\ WellFormedBirth) =>
        /\ last.chart.sun = prev.chart.sun
        /\ last.chart.moon = prev.chart.moon
        /\ last.chart.planets = prev.chart.planets
        /\ last.chart.summary[1] = prev.chart.summary[1]
        /\ last.chart.summary[2] = prev.chart.summary[2]
        /\ last.t = prev.t

C10_Witness ==
    /\ last.served /\ prev.served /\ WellFormedBirth
    /\ birth.birth_date = Date_2000_01_06
    /\ birth.birth_time = Time_06_30
    /\ last.t = 5 * 1440 + 6 * 60 + 30
    /\ last.request.latitude # prev.request.latitude
    /\ last.request.longitude # prev.request.longitude
    /\ last.chart.rising # prev.chart.rising
    /\ last.chart.houses # prev.chart.houses
    /\ last.chart.planets = prev.chart.planets
    /\ last.chart.sun.degree # 0


\* C11: every position of every returned chart (sun, moon, rising, each of
\* the seven planets, computed or degraded) has retrograde = False.
C11_NeverRetrograde ==
    last.served =>
        \A i \in 1..Len(Positions(last.chart)) :
            Positions(last.chart)[i].retrograde = FALSE

C11_Witness ==
    /\ last.served
    /\ eph.absent = { "sun" }
    /\ last.chart.sun.sign = "aries" /\ last.chart.sun.reading = EmptyText
    /\ last.chart.sun.retrograde = FALSE
    /\ last.chart.moon.reading # EmptyText
    /\ last.chart.moon.retrograde = FALSE
    /\ last.chart.rising.sign \in { "libra", "scorpio", "sagittarius",
                                    "capricorn", "aquarius", "pisces" }
    /\ last.chart.rising.retrograde = FALSE

\* C12: every returned chart has one sun entry, one moon entry, one rising
\* entry named 'ascendant', a planets list that is exactly mercury, venus,
\* mars, jupiter, saturn, uranus, neptune in that order, and exactly 12
\* houses; no body appears twice.
C12_ChartShape ==
    last.served =>
        LET names == [ i \in 1..Len(Positions(last.chart)) |->
                          Positions(last.chart)[i].planet ]
        IN  /\ last.chart.sun.planet = "sun"
            /\ last.chart.moon.planet = "moon"
            /\ last.chart.rising.planet = "ascendant"
            /\ [ i \in 1..Len(last.chart.planets) |-> last.chart.planets[i].planet ]
                  = << "mercury", "venus", "mars", "jupiter", "saturn",
                       "uranus", "neptune" >>
            /\ Len(last.chart.houses) = 12
            /\ \A i, j \in 1..Len(names) : names[i] = names[j] => i = j

C12_Witness ==
    /\ last.served
    /\ birth.birth_date = Date_1800_01_01
    /\ birth.birth_time = Time_12
    /\ Len(last.chart.planets) = 7
    /\ last.chart.planets[7].planet = "neptune"
    /\ last.chart.planets[7].reading = EmptyText
    /\ Len(last.chart.houses) = 12


\* C16: a birth date or time whose fields are all integers but do not form
\* a valid calendar date/time (month 13, day 45, hour 99) is not used as
\* given: the chart is computed for the current system time.
C16_InvalidCalendarFallsBack ==
    LET f == ParsedFields(birth)
        integers == f.year.ok /\ f.month.ok /\ f.day.ok /\ f.hour.ok /\ f.minute.ok
        calendar == /\ f.month.val \in 1..12
                    /\ f.day.val \in 1..31
                    /\ f.hour.val \in 0..23
                    /\ f.minute.val \in 0..59
    IN  (last.served /\ integers /\ ~calendar) => last.t = last.at


\* C14: a failure while computing the Ascendant has no fallback: when
\* calculate_rising_sign (or the computation of the Ascendant longitude for
\* the houses) raises, the request returns no chart and the error reaches
\* the caller (status 500), unlike a per-body failure, which still returns a
\* chart with status 200.
C14_AscendantFailureIsFatal ==
    "request" \in DOMAIN last =>
        LET t      == ResolveTime(last.request, last.at).t
            raises == calculate_rising_sign(t, last.request.latitude,
                                            last.request.longitude) = Raise
        IN  /\ raises => /\ ~last.served
                         /\ last.status = 500
                         /\ "chart" \notin DOMAIN last
            /\ ~raises => /\ last.served
                          /\ last.status = 200
                          /\ "chart" \in DOMAIN last

C14_Witness ==
    /\ "request" \in DOMAIN last
    /\ last.request.longitude = NaN
    /\ ~last.served
    /\ last.status = 500
    /\ prev.served
    /\ prev.status = 200
    /\ eph.absent = { "moon" }
    /\ prev.chart.moon = Fallback("moon")


C25_EveryEntryHasReading ==
    last.served =>
        \A i \in 1..Len(Positions(last.chart)) :
            LET entry == Positions(last.chart)[i]
            IN  /\ entry.reading # EmptyText
                /\ entry.reading = get_reading(entry.planet, entry.sign)

\* C26: even when the lookup fails for all nine bodies in one request (a
\* birth date outside the ephemeris range), the request still returns a
\* chart: nine entries with sign 'aries' and degree 0.0, plus a rising
\* position and 12 houses computed from the resolved time and the
\* geographic longitude.
C26_AllBodiesDegraded ==
    ( /\ "request" \in DOMAIN last
      /\ last.request.longitude # NaN
      /\ \A i \in 1..Len(BodyNames) :
            ~Observe(eph, PLANETS[BodyNames[i]],
                     ResolveTime(last.request, last.at).t).ok )
    =>  /\ last.served
        /\ last.status = 200
        /\ \A i \in 1..Len(BodyNames) :
              /\ BodyEntries(last.chart)[i].planet = BodyNames[i]
              /\ BodyEntries(last.chart)[i].sign = "aries"
              /\ BodyEntries(last.chart)[i].degree = 0
        /\ LET asc == PyMod(EarthRotation(last.t) + last.request.longitude, Deg(360))
           IN  /\ last.chart.rising.planet = "ascendant"
               /\ last.chart.rising.sign = SIGNS[(asc \div Deg(30)) + 1]
               /\ last.chart.rising.degree = Round2(asc % Deg(30))
               /\ Len(last.chart.houses) = 12
               /\ \A h \in 1..12 :
                     last.chart.houses[h].sign =
                         SIGNS[((asc \div Deg(30) + h - 1) % 12) + 1]

C26_Witness ==
    /\ last.served
    /\ birth.birth_date = Date_1800_01_01
    /\ birth.birth_time = Time_06_30
    /\ last.t < EphFirst
    /\ last.chart.sun = Fallback("sun")
    /\ last.chart.planets[7] = Fallback("neptune")
    /\ last.chart.rising.sign # "aries"
    /\ last.chart.houses[1].sign = last.chart.rising.sign

----------------------------------------------------------------------------
(* Claims on requests in flight together (SpecConcurrent) *)

\* C15: concurrent chart requests do not interact: under every interleaving
\* of two calculate_natal_chart requests, each returns the chart it would
\* return when run alone (the handler applied to its own request, at the
\* instant it ran, on the ephemeris as loaded), and the shared ephemeris is
\* the same after the requests as before.
C15_NoInteraction ==
    /\ [](\A i \in CallIds :
            calls[i].state = "done" =>
                calls[i].response =
                    calculate_natal_chart(calls[i].request, calls[i].at, eph))
    /\ [][eph' = eph]_vars

C15_Witness ==
    /\ calls[1].state = "done"
    /\ calls[2].state = "done"
    /\ calls[1].request.longitude = -74006
    /\ calls[2].request.longitude = 7334
    /\ calls[2].at < calls[1].at
    /\ calls[1].response # Raise
    /\ calls[2].response # Raise
    /\ calls[1].response.rising # calls[2].response.rising
    /\ calls[1].response.planets = calls[2].response.planets


----------------------------------------------------------------------------
(* Claims on the sun-sign lookups (SpecZodiac) *)

\* C30: for every valid calendar (month, day), get_zodiac_sign_id in
\* utils/zodiac.py and get_zodiac_sign in pdf_report.py return the same sign
\* id; get_zodiac_sign_id never reaches its 'capricorn' default.
C30_ZodiacLookupsAgree ==
    fnRet.op = "zodiac" =>
        /\ fnRet.sign_id.id = fnRet.sign
        /\ ~fnRet.sign_id.fallback

C30_Witness ==
    /\ fnRet.op = "zodiac"
    /\ fnArg = 2 /\ fnK = 29
    /\ fnRet.sign = "pisces"
    /\ fnRet.sign_id = [ id |-> "pisces", fallback |-> FALSE ]


----------------------------------------------------------------------------
(* Claims on the journal (SpecJournal) *)

\* C29: journal isolation: for any sequence of journal operations by any
\* users, get, update and delete of an entry id owned by another user return
\* 404 and leave that entry unchanged; a user's listing contains only
\* entries with that user's id.
C29_JournalIsolation ==
    /\ journal.ev.op \in { "get", "update", "delete" } =>
          \A e \in journal.ev.before :
              (e.id = journal.ev.entry_id /\ e.user_id # journal.ev.user) =>
                  /\ journal.ev.status = 404
                  /\ e \in journal.entries
    /\ journal.ev.op = "list" =>
          \A i \in 1..Len(journal.ev.body) :
              journal.ev.body[i].user_id = journal.ev.user

C29_Witness ==
    /\ journal.ev.op = "delete"
    /\ journal.ev.user = "u2"
    /\ journal.ev.entry_id = 1
    /\ journal.ev.status = 404
    /\ \E e \in journal.entries :
          e.id = 1 /\ e.user_id = "u1" /\ e.status = "manifested"
    /\ \E e \in journal.entries : e.user_id = "u2"


----------------------------------------------------------------------------
(* Claims on subscriptions (SpecSub) *)

C22_CancellationChangesNothing ==
    [][ (sub'.ev.op = "webhook" /\ sub'.ev.type = "CANCELLATION") =>
          /\ sub'.user = sub.user
          /\ is_premium(sub'.user, sub'.utcnow) = is_premium(sub.user, sub.utcnow)
      ]_vars

C22_Witness ==
    /\ sub.ev.op = "webhook"
    /\ sub.ev.type = "CANCELLATION"
    /\ sub.ev.known
    /\ sub.ev.status = "ok"
    /\ sub.user.subscription_tier = "premium"
    /\ is_premium(sub.user, sub.utcnow)

\* C23: after EXPIRATION or BILLING_ISSUE is processed for a known user,
\* is_premium is false, and it stays false through any later sequence of
\* events until a purchase-type event or grant-premium occurs.
C23_LapsedStaysFree ==
    /\ (sub.ev.op = "webhook" /\ sub.ev.type \in LapseTypes /\ sub.ev.known) =>
          ~is_premium(sub.user, sub.utcnow)
    /\ sub.lapsed => ~is_premium(sub.user, sub.utcnow)

C23_Witness ==
    /\ sub.lapsed
    /\ sub.ev.op = "restore"
    /\ sub.user.subscription_expires_at > sub.utcnow
    /\ sub.user.subscription_tier = "free"
    /\ ~is_premium(sub.user, sub.utcnow)

\* C27: in every reachable user state, after any sequence of webhook,
\* grant-premium, revoke-premium and restore operations, is_premium is true
\* only if subscription_tier is premium and subscription_expires_at is
\* non-null and later than the current time; after revoke-premium
\* is_premium is false.
C27_PremiumMeansPaidAndUnexpired ==
    /\ is_premium(sub.user, sub.utcnow) =>
          /\ sub.user.subscription_tier = "premium"
          /\ sub.user.subscription_expires_at # NoTime
          /\ sub.user.subscription_expires_at > sub.utcnow
    /\ sub.ev.op = "revoke" => ~is_premium(sub.user, sub.utcnow)

C27_Witness ==
    /\ sub.ev.op = "tick"
    /\ sub.user.subscription_tier = "premium"
    /\ sub.user.subscription_expires_at = sub.utcnow
    /\ ~is_premium(sub.user, sub.utcnow)


----------------------------------------------------------------------------
(* Claims on the daily tarot card (SpecTarot) *)

\* the day, in the user's timezone, on which a row was inserted
LocalDay(row) == get_user_today(tarot.timezone, row.reading_date)

\* C24: once per day: for a user who is not premium (whatever force_new is)
\* or who does not pass force_new, any sequence of GET /tarot/daily calls on
\* the same day in the user's timezone draws only on the first call; each
\* later call (one that starts after a row of that day is committed)
\* returns the same card and orientation with already_drawn = true and adds
\* no TarotHistory row.
C24_OncePerDay ==
    (tarot.ev.op = "daily" /\ ~tarot.forced) =>
        \A i \in 1..tarot.ev.rows_before :
            LocalDay(tarot.rows[i]) = tarot.ev.today =>
                /\ tarot.ev.already_drawn
                /\ tarot.ev.added = 0
                /\ tarot.ev.card_id = tarot.rows[i].card_id
                /\ tarot.ev.is_reversed = tarot.rows[i].is_reversed

\* C28: under every interleaving of two concurrent GET /tarot/daily
\* requests by the same non-premium user on the same day, at most one
\* TarotHistory row with position 'single' is inserted for that user and
\* day.
C28_OneRowPerDay ==
    ~tarot.premium =>
        \A i, j \in 1..Len(tarot.rows) :
            ( /\ tarot.rows[i].position = "single"
              /\ tarot.rows[j].position = "single"
              /\ LocalDay(tarot.rows[i]) = LocalDay(tarot.rows[j]) ) => i = j

====
